---- MODULE Spec2Model ----
(***************************************************************************)
(* Terraform provider for CockroachDB: provider configuration and the      *)
(* tunnel-backed connection lifecycle of every resource operation.         *)
(*                                                                         *)
(* Strings that are assembled or rewritten by the code (the connection     *)
(* string) are sequences of tokens, so that fmt.Sprintf is concatenation   *)
(* and strings.Replace is a rewrite of the first matching token.           *)
(* An operation handler is the sequence of its source statements (an       *)
(* operator named after the handler); the actions below execute one        *)
(* statement of the running handler at a time.                             *)
(***************************************************************************)
EXTENDS Integers, Sequences, FiniteSets, TLC

\* number of handler invocations in one provider process
MaxOps == 2

Nil == "nil"
NoClient == [nil |-> TRUE]
NoKube == [kubeClient |-> Nil]

\* ---------------------------------------------------------------- provider

argDns == "dns"
argUsername == "username"
argPassword == "password"
argKubeConfig == "kube_config"
argKubeConfigPath == "kube_config_path"
argNamespace == "namespace"
argServiceName == "service_name"
argLocalPort == "local_port"
argRemotePort == "remote_port"

LocalPortPlaceholder == "<local_port>"

providerSchema == {argDns, argUsername, argPassword, argKubeConfig}

\* d.Get(key): the configured value of a schema key, nil for a key the schema
\* does not have
Get(schemaKeys, d, key) ==
    IF key \in schemaKeys THEN [isNil |-> FALSE, v |-> d[key]] ELSE [isNil |-> TRUE, v |-> Nil]

\* strings.Contains on a token sequence
Contains(path, tok) == \E k \in 1..Len(path) : path[k] = tok

\* outcomes of the environment during configure
Envs == {"ok", "nohome", "badconfig", "badclient"}

homeDir(e) == IF e = "nohome" THEN [ok |-> FALSE, err |-> "unable to get HOME directory"]
              ELSE [ok |-> TRUE, err |-> ""]

\* fmt.Sprintf("postgresql://%s:%s@localhost:<local_port>/system?sslmode=disable", u, p)
Sprintf(u, p) ==
    <<"postgresql://", u, ":", p, "@localhost:", LocalPortPlaceholder, "/system?sslmode=disable">>

CfgOk(a) == [state |-> "ok", client |-> a, err |-> ""]
CfgErr(msg) == [state |-> "error", client |-> NoClient, err |-> msg]
CfgPanic(msg) == [state |-> "panic", client |-> NoClient, err |-> msg]

\* the check every branch of configure ends in
configureDns(a) ==
    IF a.dns = <<>> THEN CfgErr("argument 'argDns' is required") ELSE CfgOk(a)

configure_NoNamespaceCheck(d, e) ==
    LET a == [dns |-> <<>>, username |-> d[argUsername], password |-> d[argPassword],
              kubeConn |-> NoKube]
    IN  IF a.username = "" THEN CfgErr("database username can't be an empty string")
        ELSE IF a.password = "" THEN CfgErr("database password can't be an empty string")
        ELSE IF Len(d[argKubeConfig]) > 0 THEN
            LET kubeConn == d[argKubeConfig][1]
                path == kubeConn[argKubeConfigPath]
            IN  IF Contains(path, "~") /\ ~homeDir(e).ok THEN CfgErr(homeDir(e).err)
                ELSE IF e = "badconfig" THEN CfgErr("BuildConfigFromFlags")
                ELSE IF e = "badclient" THEN CfgErr("NewForConfig")
                ELSE IF kubeConn[argServiceName] = ""
                     THEN CfgErr("Cockroachdb service name is not specified")
                ELSE configureDns([a EXCEPT
                        !.kubeConn = [kubeClient |-> "clientset",
                                      nameSpace |-> kubeConn[argNamespace],
                                      serviceName |-> kubeConn[argServiceName],
                                      remotePort |-> kubeConn[argRemotePort]],
                        !.dns = Sprintf(a.username, a.password)])
        ELSE CfgPanic("interface conversion: interface {} is nil, not string")

\* configure: the provider's ConfigureContextFunc
configure(d, e) ==
    LET a == [dns |-> <<>>, username |-> d[argUsername], password |-> d[argPassword],
              kubeConn |-> NoKube]
    IN  IF a.username = "" THEN CfgErr("database username can't be an empty string")
        ELSE IF a.password = "" THEN CfgErr("database password can't be an empty string")
        ELSE IF Len(d[argKubeConfig]) > 0 THEN
            LET kubeConn == d[argKubeConfig][1]
                path == kubeConn[argKubeConfigPath]
            IN  IF Contains(path, "~") /\ ~homeDir(e).ok THEN CfgErr(homeDir(e).err)
                ELSE IF e = "badconfig" THEN CfgErr("BuildConfigFromFlags")
                ELSE IF e = "badclient" THEN CfgErr("NewForConfig")
                ELSE IF kubeConn[argNamespace] = ""
                     THEN CfgErr("Cockroachdb namespace is not specified")
                ELSE IF kubeConn[argServiceName] = ""
                     THEN CfgErr("Cockroachdb service name is not specified")
                ELSE configureDns([a EXCEPT
                        !.kubeConn = [kubeClient |-> "clientset",
                                      nameSpace |-> kubeConn[argNamespace],
                                      serviceName |-> kubeConn[argServiceName],
                                      remotePort |-> kubeConn[argRemotePort]],
                        !.dns = Sprintf(a.username, a.password)])
        ELSE
            \* d.Get("argDns").(string): the key read is the literal "argDns"
            LET u == Get(providerSchema, d, "argDns")
            IN  IF u.isNil
                THEN CfgPanic("interface conversion: interface {} is nil, not string")
                ELSE configureDns(IF u.v # <<>> THEN [a EXCEPT !.dns = u.v] ELSE a)

\* the provider blocks a practitioner can write
KubeBlocks ==
    [kube_config_path : {<<"~", "/.kube/config">>}, namespace : {"", "ns"},
     service_name : {"", "svc"}, remote_port : {"26257"}]

ProviderConfigs ==
    [dns : {<<>>, <<"postgresql://root@db:26257/system">>},
     username : {"", "u", LocalPortPlaceholder}, password : {"", "p"},
     kube_config : {<<>>} \cup {<<k>> : k \in KubeBlocks}]

\* ------------------------------------------------- statements of a handler

\* One source statement of a handler.  ok: the outcome a statement has by
\* itself (a validation, a d.Set on a key of the schema); checked: whether
\* the handler returns on the statement's error.
Item(k) == [k |-> k, ok |-> TRUE, checked |-> TRUE, sql |-> <<>>, arg |-> "", val |-> ""]

\* if cond { return diag.Errorf(...) }
Validate(ok) == [Item("validate") EXCEPT !.ok = ok]
\* d.Partial(b)
Partial(b) == [Item("partial") EXCEPT !.ok = b]
\* stopCh := make(chan struct{}, 1); readyCh := make(chan struct{})
Make == Item("make")
\* tryPortForwardIfNeeded(ctx, d, meta, stopCh, readyCh, local_port): the call
\* is a statement, nothing it returns is looked at
TryPortForward == [Item("tryPortForwardIfNeeded") EXCEPT !.checked = FALSE]
\* conn, err := pgx.Connect(ctx, dns); if err != nil { return }
Connect == Item("connect")
\* conn, err := pgx.Connect(ctx, dns) with err not looked at
ConnectUnchecked == [Item("connect") EXCEPT !.checked = FALSE]
\* if err := conn.Ping(ctx); err != nil { return }
Ping == Item("ping")
ExecUnchecked(sql) == [Item("exec") EXCEPT !.sql = sql, !.checked = FALSE]
\* _, err = conn.Exec(ctx, sql); if err != nil { return }
Exec(sql) == [Item("exec") EXCEPT !.sql = sql]
\* err = conn.QueryRow(ctx, sql).Scan(...); if err != nil { return }
QueryRow(sql) == [Item("queryrow") EXCEPT !.sql = sql]
\* rows, err := conn.Query(ctx, sql); if err != nil { return }; defer rows.Close()
Query(sql) == [Item("query") EXCEPT !.sql = sql]
\* for rows.Next() { rows.Scan(...); if the row is the one looked for { ...; break } }
ScanRows == Item("scan")
\* err = rows.Err(); if err != nil { return }
RowsErr == Item("rowserr")
\* if err := d.Set(key, v); err != nil { return }   (d.Set fails on a key that
\* is not in the resource's schema)
Set(schemaKeys, key) == [Item("set") EXCEPT !.ok = key \in schemaKeys, !.arg = key]
\* d.Set(key, v) with the error dropped
SetUnchecked(schemaKeys, key) ==
    [Item("set") EXCEPT !.ok = key \in schemaKeys, !.arg = key, !.checked = FALSE]
\* d.Set(key, v) on the attribute that names the resource, v a value the
\* handler holds
SetName(schemaKeys, key, v) ==
    [Item("setname") EXCEPT !.ok = key \in schemaKeys, !.arg = key, !.val = v]
SetNameUnchecked(schemaKeys, key, v) ==
    [SetName(schemaKeys, key, v) EXCEPT !.checked = FALSE]
\* d.Set(key, v), v the name column of the row the handler scanned
SetScanned(schemaKeys, key) ==
    [Item("setscanned") EXCEPT !.ok = key \in schemaKeys, !.arg = key]
\* d.SetId(id)
SetId(id) == [Item("setid") EXCEPT !.arg = id]
\* d.SetId(strconv.Itoa(id)), id the schedule_id column of the scanned row
SetIdScanned == Item("setidscanned")
\* close(stopCh)
Close == Item("close")
\* if !found { return an error }: the row the handler looked for is not there
NotFound(found) == [Item("validate") EXCEPT !.ok = found, !.arg = "notfound"]

dbNameAttr == "name"
dbOwnerAttr == "owner"
dbEncodingAttr == "encoding"
dbPrimaryRegionAttr == "primary_region"
dbRegionsAttr == "regions"
dbUsernameAttr == "username"
dbPasswordAttr == "password"
dbRolesAttr == "roles"
dbAdminAttr == "is_admin"
schedulerNameAttr == "name"
schedulerBackupPathAttr == "backup_path"
schedulerDbNameAttr == "database_name"
backupOptionsAttr == "backup_options"
backupReccuringAttr == "backup_recurring"
backupFullBackupAttr == "backup_full"

resourceDatabase ==
    {dbNameAttr, dbOwnerAttr, dbEncodingAttr, dbPrimaryRegionAttr, dbRegionsAttr, argLocalPort}
resourceUser == {dbUsernameAttr, dbPasswordAttr, dbRolesAttr, dbAdminAttr, argLocalPort}
resourceDatabaseBackup ==
    {schedulerNameAttr, schedulerDbNameAttr, schedulerBackupPathAttr, backupFullBackupAttr,
     backupReccuringAttr, backupOptionsAttr, argLocalPort}
dataSourceDatabase == {dbNameAttr, dbOwnerAttr, argLocalPort}

\* contains(list, x)
contains(list, x) == \E k \in 1..Len(list) : list[k] = x

\* every element of list
SelectNotIn_All(list, other) == list

RECURSIVE SelectNotIn(_, _)
\* the elements of list that are not in other, in the order of list
SelectNotIn(list, other) ==
    IF list = <<>> THEN <<>>
    ELSE (IF contains(other, Head(list)) THEN <<>> ELSE <<Head(list)>>)
         \o SelectNotIn(Tail(list), other)

Opt(cond, items) == IF cond THEN items ELSE <<>>

\* --------------------------------------------------------------- handlers

resourceDatabaseCreate_ConnectFirst(d) ==
    <<Make, Validate(d.name # ""),
      Connect, TryPortForward, Ping,
      Exec(<<"CREATE DATABASE", d.name>>),
      Exec(<<"ALTER DATABASE", d.name, "OWNER TO">>),
      QueryRow(<<"SELECT id FROM crdb_internal.databases", d.name>>),
      SetId("dbid"),
      SetNameUnchecked(resourceDatabase, dbNameAttr, d.name),
      SetUnchecked(resourceDatabase, dbOwnerAttr),
      SetUnchecked(resourceDatabase, dbEncodingAttr),
      SetUnchecked(resourceDatabase, dbPrimaryRegionAttr),
      SetUnchecked(resourceDatabase, dbRegionsAttr),
      Close>>

resourceDatabaseCreate(d) ==
    <<Make, Validate(d.name # ""),
      TryPortForward, Connect, Ping,
      Exec(<<"CREATE DATABASE", d.name>>),
      Exec(<<"ALTER DATABASE", d.name, "OWNER TO">>),
      QueryRow(<<"SELECT id FROM crdb_internal.databases", d.name>>),
      SetId("dbid"),
      SetNameUnchecked(resourceDatabase, dbNameAttr, d.name),
      SetUnchecked(resourceDatabase, dbOwnerAttr),
      SetUnchecked(resourceDatabase, dbEncodingAttr),
      SetUnchecked(resourceDatabase, dbPrimaryRegionAttr),
      SetUnchecked(resourceDatabase, dbRegionsAttr),
      Close>>

resourceDatabaseRead(d, found) ==
    <<Make, TryPortForward, Connect, Ping,
      Query(<<"SELECT FROM crdb_internal.databases">>),
      ScanRows>>
    \o Opt(found, <<Set(resourceDatabase, dbOwnerAttr),
                    Set(resourceDatabase, dbPrimaryRegionAttr),
                    Set(resourceDatabase, dbRegionsAttr)>>)
    \o <<RowsErr, Close, NotFound(found)>>

resourceDatabaseUpdate_OldName(d) ==
    <<Partial(TRUE), Make, TryPortForward, Connect, Ping>>
    \o Opt(dbNameAttr \in d.ch,
           <<Validate(d.name # ""),
             Exec(<<"ALTER DATABASE", d.oname, "RENAME TO", d.name>>),
             SetNameUnchecked(resourceDatabase, dbNameAttr, d.name)>>)
    \o Opt(dbOwnerAttr \in d.ch, <<Exec(<<"ALTER DATABASE", d.oname, "OWNER TO">>)>>)
    \o Opt(dbPrimaryRegionAttr \in d.ch,
           <<Exec(<<"ALTER DATABASE", d.name, "SET PRIMARY REGION">>)>>)
    \o Opt(dbRegionsAttr \in d.ch,
           LET drop == SelectNotIn(d.oregs, d.nregs)
               add == SelectNotIn(d.nregs, d.oregs)
           IN  [k \in 1..Len(drop) |->
                    Exec(<<"ALTER DATABASE", d.name, "DROP REGION", drop[k]>>)]
               \o [k \in 1..Len(add) |->
                    Exec(<<"ALTER DATABASE", d.name, "ADD REGION", add[k]>>)])
    \o <<Partial(FALSE), Close>>

resourceDatabaseUpdate(d) ==
    <<Partial(TRUE), Make, TryPortForward, Connect, Ping>>
    \o Opt(dbNameAttr \in d.ch,
           <<Validate(d.name # ""),
             Exec(<<"ALTER DATABASE", d.oname, "RENAME TO", d.name>>),
             SetNameUnchecked(resourceDatabase, dbNameAttr, d.name)>>)
    \o Opt(dbOwnerAttr \in d.ch, <<Exec(<<"ALTER DATABASE", d.name, "OWNER TO">>)>>)
    \o Opt(dbPrimaryRegionAttr \in d.ch,
           <<Exec(<<"ALTER DATABASE", d.name, "SET PRIMARY REGION">>)>>)
    \o Opt(dbRegionsAttr \in d.ch,
           LET drop == SelectNotIn(d.oregs, d.nregs)
               add == SelectNotIn(d.nregs, d.oregs)
           IN  [k \in 1..Len(drop) |->
                    Exec(<<"ALTER DATABASE", d.name, "DROP REGION", drop[k]>>)]
               \o [k \in 1..Len(add) |->
                    Exec(<<"ALTER DATABASE", d.name, "ADD REGION", add[k]>>)])
    \o <<Partial(FALSE), Close>>

resourceDatabaseDelete_ClearIdFirst(d) ==
    <<Make, TryPortForward, Connect, Ping,
      Validate(d.name # ""),
      SetId(""),
      Exec(<<"DROP DATABASE", d.name>>),
      SetNameUnchecked(resourceDatabase, dbNameAttr, ""),
      Close>>

resourceDatabaseDelete(d) ==
    <<Make, TryPortForward, Connect, Ping,
      Validate(d.name # ""),
      Exec(<<"DROP DATABASE", d.name>>),
      SetId(""),
      SetNameUnchecked(resourceDatabase, dbNameAttr, ""),
      Close>>

resourceDatabaseImporter(d) ==
    <<Make, TryPortForward, Connect, Ping,
      QueryRow(<<"SELECT id, owner FROM crdb_internal.databases", d.id>>),
      SetId("dbid"),
      SetName(resourceDatabase, dbNameAttr, d.id),
      Set(resourceDatabase, dbOwnerAttr),
      Close>>

resourceUserCreate_IdFromPassword(d) ==
    <<Make, Validate(d.port # ""), Validate(d.name # ""), Validate(d.password # ""),
      TryPortForward, Connect, Ping,
      Exec(<<"CREATE USER", d.name>>)>>
    \o Opt(d.isAdmin, <<Exec(<<"GRANT admin TO", d.name>>)>>)
    \o <<SetId(d.password),
         SetNameUnchecked(resourceUser, dbNameAttr, d.name),
         SetUnchecked(resourceUser, dbPasswordAttr),
         SetUnchecked(resourceUser, dbRolesAttr),
         SetUnchecked(resourceUser, dbAdminAttr),
         Close>>

resourceUserCreate(d) ==
    <<Make, Validate(d.port # ""), Validate(d.name # ""), Validate(d.password # ""),
      TryPortForward, Connect, Ping,
      Exec(<<"CREATE USER", d.name>>)>>
    \o Opt(d.isAdmin, <<Exec(<<"GRANT admin TO", d.name>>)>>)
    \o <<SetId(d.name),
         SetNameUnchecked(resourceUser, dbNameAttr, d.name),
         SetUnchecked(resourceUser, dbPasswordAttr),
         SetUnchecked(resourceUser, dbRolesAttr),
         SetUnchecked(resourceUser, dbAdminAttr),
         Close>>

resourceUserRead(d, found) ==
    <<Validate(d.port # ""),
      Make, TryPortForward, Connect, Ping,
      Query(<<"SHOW USERS">>),
      ScanRows>>
    \o Opt(found, <<Set(resourceUser, dbAdminAttr)>>)
    \o <<RowsErr>>
    \o Opt(~found, <<SetName(resourceUser, dbNameAttr, "")>>)
    \o <<Close>>

resourceUserUpdate(d) ==
    <<Validate(d.port # ""), Partial(TRUE), Make, TryPortForward, Connect, Ping>>
    \o Opt(d.ch # {},
           <<Validate(d.password # ""),
             Exec(<<"ALTER USER", d.id>>)>>
           \o Opt(d.oadmin /\ ~d.isAdmin, <<Exec(<<"REVOKE admin from", d.id>>)>>)
           \o Opt(~d.oadmin /\ d.isAdmin, <<Exec(<<"GRANT admin to", d.id>>)>>)
           \o <<SetUnchecked(resourceUser, dbAdminAttr),
                SetUnchecked(resourceUser, dbRolesAttr),
                SetUnchecked(resourceUser, dbPasswordAttr)>>)
    \o <<Close, Partial(FALSE)>>

resourceUserDelete(d) ==
    <<Validate(d.port # ""),
      Make, TryPortForward, Connect, Ping,
      Validate(d.name # ""),
      Exec(<<"DROP USER", d.name>>),
      SetId(""),
      SetName(resourceUser, dbUsernameAttr, ""),
      Set(resourceUser, dbPasswordAttr),
      Set(resourceUser, dbRolesAttr),
      Set(resourceUser, dbAdminAttr),
      Close>>

\* resourceUserImporter runs resourceUserRead and maps its error
resourceUserImporter(d, found) == resourceUserRead(d, found)

resourceDatabaseBackupCreate(d) ==
    <<Make, Validate(d.name # ""), Validate(d.dbName # ""), Validate(d.path # ""),
      TryPortForward, Connect, Ping,
      Exec(<<"CREATE SCHEDULE", d.name, "FOR BACKUP DATABASE", d.dbName, "INTO", d.path>>),
      QueryRow(<<"SELECT schedule_id FROM scheduled_jobs", d.name>>),
      SetIdScanned,
      Close>>

resourceDatabaseBackupRead(d) ==
    <<Make, TryPortForward, Connect, Ping,
      QueryRow(<<"SELECT schedule_name, schedule_expr FROM scheduled_jobs", d.id>>),
      SetScanned(resourceDatabaseBackup, schedulerNameAttr),
      Set(resourceDatabaseBackup, backupReccuringAttr),
      Close>>

resourceDatabaseBackupUpdate(d) == <<>>

resourceDatabaseBackupDelete(d) ==
    <<Make, TryPortForward, Connect, Ping,
      Exec(<<"DROP SCHEDULE", d.id>>),
      SetId(""),
      SetUnchecked(resourceDatabaseBackup, schedulerDbNameAttr),
      Close>>

dataSourceDatabaseRead(d) ==
    <<Make, TryPortForward, ConnectUnchecked, Ping,
      QueryRow(<<"SELECT id, owner FROM crdb_internal.databases", d.name>>),
      SetId("dbid"),
      SetName(dataSourceDatabase, dbNameAttr, d.name),
      Set(dataSourceDatabase, dbOwnerAttr),
      Close>>

Handlers ==
    {"resourceDatabaseCreate", "resourceDatabaseRead", "resourceDatabaseUpdate",
     "resourceDatabaseDelete", "resourceDatabaseImporter",
     "resourceUserCreate", "resourceUserRead", "resourceUserUpdate",
     "resourceUserDelete", "resourceUserImporter",
     "resourceDatabaseBackupCreate", "resourceDatabaseBackupRead",
     "resourceDatabaseBackupUpdate", "resourceDatabaseBackupDelete",
     "dataSourceDatabaseRead"}

\* the statements of handler h on resource data d, found being what its row
\* loop found so far
Statements(h, d, found) ==
    CASE h = "resourceDatabaseCreate" -> resourceDatabaseCreate(d)
      [] h = "resourceDatabaseRead" -> resourceDatabaseRead(d, found)
      [] h = "resourceDatabaseUpdate" -> resourceDatabaseUpdate(d)
      [] h = "resourceDatabaseDelete" -> resourceDatabaseDelete(d)
      [] h = "resourceDatabaseImporter" -> resourceDatabaseImporter(d)
      [] h = "resourceUserCreate" -> resourceUserCreate(d)
      [] h = "resourceUserRead" -> resourceUserRead(d, found)
      [] h = "resourceUserUpdate" -> resourceUserUpdate(d)
      [] h = "resourceUserDelete" -> resourceUserDelete(d)
      [] h = "resourceUserImporter" -> resourceUserImporter(d, found)
      [] h = "resourceDatabaseBackupCreate" -> resourceDatabaseBackupCreate(d)
      [] h = "resourceDatabaseBackupRead" -> resourceDatabaseBackupRead(d)
      [] h = "resourceDatabaseBackupUpdate" -> resourceDatabaseBackupUpdate(d)
      [] h = "resourceDatabaseBackupDelete" -> resourceDatabaseBackupDelete(d)
      [] h = "dataSourceDatabaseRead" -> dataSourceDatabaseRead(d)

\* ----------------------------------------------- what a handler is called on

LocalPorts == {"", "abc", "26257", "26258"}
Names == {"", "a"}
RegionLists == {<<>>, <<"r1">>, <<"r2">>, <<"r1", "r2">>, <<"r1", "r1">>}

\* strconv.Itoa
Itoa(n) == ToString(n)

\* the cluster before the first call: one user, and one backup schedule that
\* was not made through this provider
Users0 == {"id0"}
Schedules0 == {[id |-> 0, name |-> "a"]}
NoRow == [id |-> -1, name |-> ""]

\* what Terraform keeps of a call for the next one: nothing, or the state a
\* successful Create left (made: the schedule that Create created)
NoPrev == [h |-> "none", id |-> "", name |-> "", n |-> "", port |-> "", made |-> -1]

\* the handlers Terraform runs on the state a Create left
Follows(create) ==
    CASE create = "resourceUserCreate" -> {"resourceUserRead", "resourceUserDelete"}
      [] create = "resourceDatabaseBackupCreate" ->
            {"resourceDatabaseBackupRead", "resourceDatabaseBackupDelete"}
      [] OTHER -> {}

\* resource data: the configured attributes, the ID on entry (id), and for an
\* update the changed attributes (ch) with the old values that are read
D0 ==
    [port |-> "26257", id |-> "id0", name |-> "a", oname |-> "a", password |-> "pw",
     isAdmin |-> FALSE, oadmin |-> FALSE, ch |-> {}, dbName |-> "db",
     path |-> "nodelocal://b", oregs |-> <<>>, nregs |-> <<>>]

\* old and new region list of an update that changes the attributes c: every
\* pair of lists when the regions are all that changes, one pair otherwise
RegionChanges(c) ==
    IF c = {dbRegionsAttr}
    THEN {x \in RegionLists \X RegionLists : x[1] # x[2]}
    ELSE {<<<<"r1">>, <<"r2">>>>}

ResourceData(h) ==
    CASE h \in {"resourceDatabaseCreate"} ->
            {[D0 EXCEPT !.port = p, !.id = "", !.name = n] : p \in LocalPorts, n \in Names}
      [] h = "resourceDatabaseDelete" ->
            {[D0 EXCEPT !.port = p, !.name = n] : p \in LocalPorts, n \in Names}
      [] h = "resourceUserDelete" ->
            {[D0 EXCEPT !.port = p, !.name = n] : p \in LocalPorts, n \in Names}
      [] h \in {"resourceUserRead", "resourceUserImporter"} ->
            {[D0 EXCEPT !.port = p, !.id = x] : p \in LocalPorts, x \in {"id0", "gone"}}
      [] h = "resourceDatabaseBackupRead" ->
            {[D0 EXCEPT !.port = p, !.id = Itoa(s.id)] : p \in LocalPorts, s \in Schedules0}
      [] h = "resourceDatabaseUpdate" ->
            UNION {{[D0 EXCEPT !.port = p, !.ch = c,
                               !.name = IF dbNameAttr \in c THEN n ELSE "a",
                               !.oregs = IF dbRegionsAttr \in c THEN rr[1] ELSE <<>>,
                               !.nregs = IF dbRegionsAttr \in c THEN rr[2] ELSE <<>>] :
                       p \in LocalPorts, n \in {"", "b"}, rr \in RegionChanges(c)} :
                   c \in SUBSET {dbNameAttr, dbOwnerAttr, dbPrimaryRegionAttr, dbRegionsAttr}}
      [] h = "resourceUserCreate" ->
            {[D0 EXCEPT !.port = p, !.id = "", !.name = n, !.password = w, !.isAdmin = b] :
                p \in LocalPorts, n \in Names, w \in {"", "pw"}, b \in BOOLEAN}
      [] h = "resourceUserUpdate" ->
            {[D0 EXCEPT !.port = p, !.password = w, !.oadmin = o, !.isAdmin = b,
                        !.ch = c \cup (IF o # b THEN {dbAdminAttr} ELSE {})] :
                p \in LocalPorts, w \in {"", "pw"}, o \in BOOLEAN, b \in BOOLEAN,
                c \in SUBSET {dbRolesAttr, dbPasswordAttr}}
      [] h = "resourceDatabaseBackupCreate" ->
            {[D0 EXCEPT !.port = p, !.id = "", !.name = n, !.dbName = m, !.path = q] :
                p \in LocalPorts, n \in Names, m \in {"", "db"}, q \in {"", "nodelocal://b"}}
      [] OTHER -> {[D0 EXCEPT !.port = p] : p \in LocalPorts}

\* ------------------------------------------------------------------ state

VARIABLES
    cfg,        \* the provider block
    env,        \* what the environment answers during configure
    cfgState,   \* "unconfigured", "ok", "error", "panic"
    cfgErr,     \* the diagnostic configure returned
    client,     \* the *cockroachClient handed to every handler (meta)
    inv,        \* handler invocations so far; the running one's number
    listeners,  \* bound local listeners: <<invocation, port>>
    h,          \* the running (or last) handler
    d,          \* its resource data
    pc,         \* "idle", "run", "done", "panic"
    i,          \* the statement of the handler to execute next
    stop,       \* stopCh of this invocation: "open", "closed"
    ready,      \* readyCh of this invocation was closed
    fwd,        \* forwarding task of this invocation
    acq,        \* tryPortForwardIfNeeded of this invocation
    conn,       \* conn of this invocation: "none", "open", "failed" (nil)
    rows,       \* a row cursor is open
    found,      \* the row loop found its row
    log,        \* the SQL statements issued, with their outcome
    result,     \* what the invocation returned
    rid,        \* d.Id()
    partial,    \* d.Partial
    aname,      \* the attribute of d that names the resource (name, username)
    row,        \* the row QueryRow(...).Scan read
    nconn,      \* pgx.Connect calls of this invocation
    stopCh,     \* the channel stopCh of this invocation is
    readyCh,    \* the channel readyCh of this invocation is
    handed,     \* the channel pairs this invocation handed to tryPortForwardIfNeeded
    prev,       \* the state of the Create this call follows, or NoPrev
    made,       \* the schedule CREATE SCHEDULE of this invocation created
    users,      \* the cluster's users
    schedules,  \* the cluster's backup schedules
    regions     \* the regions of the database an Update works on

provVars == <<cfg, env, cfgState, cfgErr, client>>
tunVars == <<listeners, stop, ready, fwd, acq>>
callVars == <<h, d, inv, prev>>
dbVars == <<users, schedules, regions, made>>
chanVars == <<stopCh, readyCh, handed>>
dataVars == <<rid, partial, found, log, aname, row, nconn, chanVars, dbVars>>
vars == <<cfg, env, cfgState, cfgErr, client, inv, listeners, h, d, pc, i, stop, ready,
          fwd, acq, conn, rows, found, log, result, rid, partial, aname, row, nconn,
          stopCh, readyCh, handed, prev, made, users, schedules, regions>>

\* strings.Replace(s, old, new, 1) on a token sequence
RECURSIVE Replace(_, _, _)
Replace(s, old, new) ==
    IF s = <<>> THEN <<>>
    ELSE IF Head(s) = old THEN <<new>> \o Tail(s)
    ELSE <<Head(s)>> \o Replace(Tail(s), old, new)

\* dns := strings.Replace(cockroachClient.dns, "<local_port>", local_port, 1)
dns == Replace(client.dns, LocalPortPlaceholder, d.port)

IsPort(p) == p \in {"26257", "26258", "26259", "26260"}

Stmts == Statements(h, d, found)
Cur == Stmts[i]
At(k) == pc = "run" /\ i <= Len(Stmts) /\ Cur.k = k

\* the statement succeeded or its error is not looked at: go on; otherwise
\* return the error (deferred rows.Close runs)
Outcome(ok) ==
    IF ok THEN i' = i + 1 /\ UNCHANGED <<pc, result, rows>>
    ELSE pc' = "done" /\ result' = "error" /\ rows' = FALSE /\ UNCHANGED i

\* a panic ends the provider process, and its listeners with it
Panic(msg) ==
    /\ pc' = "panic" /\ result' = msg /\ listeners' = {}
    /\ UNCHANGED i

\* ---------------------------------------------------------------- actions

Configure ==
    /\ cfgState = "unconfigured"
    /\ LET r == configure(cfg, env)
       IN  cfgState' = r.state /\ cfgErr' = r.err /\ client' = r.client
    /\ UNCHANGED <<cfg, env, tunVars, callVars, dataVars, pc, i, conn, rows, result>>

\* make(chan struct{}): a channel no other make returned, the k-th of
\* invocation n
makeChan_Shared(n, k) == k
makeChan(n, k) == 2 * (n - 1) + k

Range(list) == {list[k] : k \in 1..Len(list)}

\* the resource data of a call on the state a Create left
Carried == [D0 EXCEPT !.port = prev.port, !.id = prev.id, !.name = prev.name]

\* Terraform calls a handler, on the state the Create before it left or on
\* other resource data
Begin ==
    /\ cfgState = "ok" /\ pc = "idle" /\ inv < MaxOps
    /\ \E hh \in Handlers : \E follow \in {f \in BOOLEAN : f => hh \in Follows(prev.h)} :
          \E dd \in (IF follow THEN {Carried} ELSE ResourceData(hh)) :
             /\ h' = hh /\ d' = dd /\ rid' = dd.id /\ aname' = dd.name
             /\ prev' = IF follow THEN prev ELSE NoPrev
             /\ regions' = IF hh = "resourceDatabaseUpdate" THEN Range(dd.oregs) ELSE {}
    /\ inv' = inv + 1 /\ pc' = "run"
    /\ UNCHANGED <<provVars, tunVars, i, conn, rows, found, log, result, partial, row,
                   nconn, chanVars, made, users, schedules>>

\* the handler has returned: its channels, connection and resource data are
\* out of reach; a listener it left bound stays bound
Finish ==
    /\ pc = "done"
    /\ pc' = "idle" /\ h' = "none" /\ d' = D0 /\ i' = 1
    /\ stop' = "open" /\ ready' = FALSE /\ fwd' = "none" /\ acq' = "pending"
    /\ conn' = "none" /\ rows' = FALSE /\ found' = FALSE /\ log' = <<>>
    /\ result' = "none" /\ rid' = "" /\ partial' = FALSE
    /\ aname' = "" /\ row' = NoRow /\ nconn' = 0 /\ stopCh' = 0 /\ readyCh' = 0
    /\ made' = -1 /\ regions' = {} /\ handed' = <<>>
    /\ prev' = IF Follows(h) # {} /\ result = "ok"
               THEN [h |-> h, id |-> rid, name |-> aname, n |-> d.name, port |-> d.port,
                     made |-> made]
               ELSE NoPrev
    /\ UNCHANGED <<provVars, listeners, inv, users, schedules>>

DoValidate ==
    /\ At("validate")
    /\ Outcome(Cur.ok)
    /\ UNCHANGED <<provVars, tunVars, callVars, dataVars, conn>>

DoMake ==
    /\ At("make")
    /\ stopCh' = makeChan(inv, 1) /\ readyCh' = makeChan(inv, 2)
    /\ i' = i + 1
    /\ UNCHANGED <<provVars, tunVars, callVars, pc, result, conn, rows, rid, partial, found,
                   log, aname, row, nconn, handed, dbVars>>

DoPartial ==
    /\ At("partial")
    /\ partial' = Cur.ok
    /\ i' = i + 1
    /\ UNCHANGED <<provVars, tunVars, callVars, pc, result, conn, rows, rid, found, log,
                   aname, row, nconn, chanVars, dbVars>>

\* the client has a Kubernetes clientset
NeedsTunnel_Always(c) == TRUE
NeedsTunnel(c) == c.kubeConn # NoKube

\* tryPortForwardIfNeeded, entry: nothing to do without Kubernetes
\* configuration, otherwise the forwarding task is started and awaited
TryPortForwardIfNeeded ==
    /\ At("tryPortForwardIfNeeded") /\ acq = "pending"
    /\ handed' = Append(handed, [stop |-> stopCh, ready |-> readyCh])
    /\ IF NeedsTunnel(client)
       THEN acq' = "waiting" /\ fwd' = "starting" /\ UNCHANGED i
       ELSE acq' = "noop" /\ fwd' = fwd /\ i' = i + 1
    /\ UNCHANGED <<provVars, callVars, rid, partial, found, log, aname, row, nconn, dbVars,
                   stopCh, readyCh, listeners, stop, ready, pc, result, conn, rows>>

\* the forwarding task binds the local listener and signals readiness
ForwarderBind ==
    /\ pc = "run" /\ fwd = "starting"
    /\ IsPort(d.port) /\ ~\E l \in listeners : l[2] = d.port
    /\ listeners' = listeners \cup {<<inv, d.port>>}
    /\ fwd' = "listening" /\ ready' = TRUE
    /\ UNCHANGED <<provVars, callVars, dataVars, stop, acq, pc, i, result, conn, rows>>

\* the forwarding setup fails (bind error, pod not resolvable, not ready in
\* time); some failure paths close the stop signal defensively
ForwarderFail ==
    /\ pc = "run" /\ fwd = "starting"
    /\ fwd' = "failed"
    /\ \E defensive \in BOOLEAN : stop' = IF defensive THEN "closed" ELSE stop
    /\ UNCHANGED <<provVars, callVars, dataVars, listeners, ready, acq, pc, i, result,
                   conn, rows>>

\* tryPortForwardIfNeeded, exit: readiness was signalled or the start failed;
\* the handler goes on to its next statement either way
AwaitReady ==
    /\ At("tryPortForwardIfNeeded") /\ acq = "waiting"
    /\ ready \/ fwd = "failed"
    /\ acq' = IF ready THEN "ok" ELSE "failed"
    /\ i' = i + 1
    /\ UNCHANGED <<provVars, callVars, dataVars, listeners, stop, ready, fwd, pc, result,
                   conn, rows>>

\* the port the connection string names after "@localhost:", if any
RECURSIVE LocalPortOf(_)
LocalPortOf(s) ==
    IF Len(s) < 2 THEN ""
    ELSE IF Head(s) = "@localhost:" THEN s[2]
    ELSE LocalPortOf(Tail(s))

\* something accepts connections for this connection string
Reachable(s) ==
    IF Contains(s, "@localhost:") THEN \E l \in listeners : l[2] = LocalPortOf(s)
    ELSE TRUE

DoConnect ==
    /\ At("connect")
    /\ \E ok \in BOOLEAN :
          /\ ok => Reachable(dns)
          /\ conn' = IF ok THEN "open" ELSE "failed"
          /\ Outcome(ok \/ ~Cur.checked)
    /\ nconn' = nconn + 1
    /\ UNCHANGED <<provVars, tunVars, callVars, rid, partial, found, log, aname, row,
                   chanVars, dbVars>>

\* conn.Ping; on a nil conn a nil pointer dereference
DoPing ==
    /\ At("ping")
    /\ IF conn # "open"
       THEN Panic("nil pointer dereference") /\ UNCHANGED rows
       ELSE (\E ok \in BOOLEAN : Outcome(ok)) /\ UNCHANGED listeners
    /\ UNCHANGED <<provVars, callVars, dataVars, stop, ready, fwd, acq, conn>>

IsRegion(sql, verb) == Len(sql) = 4 /\ sql[3] = verb

\* the cluster can carry the statement out: no user is created twice or
\* dropped when absent, no region dropped when absent or added twice, and a
\* QueryRow(...).Scan needs a row
Possible(sql) ==
    CASE sql[1] = "CREATE USER" -> sql[2] \notin users
      [] sql[1] = "DROP USER" -> sql[2] \in users
      [] sql[1] = "SELECT schedule_id FROM scheduled_jobs" ->
            \E s \in schedules : s.name = sql[2]
      [] sql[1] = "SELECT schedule_name, schedule_expr FROM scheduled_jobs" ->
            \E s \in schedules : Itoa(s.id) = sql[2]
      [] IsRegion(sql, "DROP REGION") -> sql[4] \in regions
      [] IsRegion(sql, "ADD REGION") -> sql[4] \notin regions
      [] OTHER -> TRUE

\* the rows the statement may hand to Scan: QueryRow takes the first row of
\* the result, and nothing orders the schedules of one name
Scanned(sql) ==
    CASE sql[1] = "SELECT schedule_id FROM scheduled_jobs" ->
            {s \in schedules : s.name = sql[2]}
      [] sql[1] = "SELECT schedule_name, schedule_expr FROM scheduled_jobs" ->
            {s \in schedules : Itoa(s.id) = sql[2]}
      [] OTHER -> {NoRow}

\* what the statement, carried out, does to the cluster
Effect(sql) ==
    /\ users' = CASE sql[1] = "CREATE USER" -> users \cup {sql[2]}
                  [] sql[1] = "DROP USER" -> users \ {sql[2]}
                  [] OTHER -> users
    /\ schedules' =
          CASE sql[1] = "CREATE SCHEDULE" -> schedules \cup {[id |-> inv, name |-> sql[2]]}
            [] sql[1] = "DROP SCHEDULE" -> {s \in schedules : Itoa(s.id) # sql[2]}
            [] OTHER -> schedules
    /\ made' = IF sql[1] = "CREATE SCHEDULE" THEN inv ELSE made
    /\ regions' = CASE IsRegion(sql, "DROP REGION") -> regions \ {sql[4]}
                    [] IsRegion(sql, "ADD REGION") -> regions \cup {sql[4]}
                    [] OTHER -> regions

\* conn.Exec, conn.QueryRow(...).Scan, conn.Query
DoStatement ==
    /\ At("exec") \/ At("queryrow") \/ At("query")
    /\ \E ok \in {b \in BOOLEAN : b => Possible(Cur.sql)} :
          /\ log' = Append(log, [sql |-> Cur.sql, ok |-> ok])
          /\ IF ok
             THEN Effect(Cur.sql) /\ \E r \in Scanned(Cur.sql) : row' = r
             ELSE UNCHANGED <<dbVars, row>>
          /\ IF ok \/ ~Cur.checked
             THEN i' = i + 1 /\ rows' = (rows \/ Cur.k = "query") /\ UNCHANGED <<pc, result>>
             ELSE pc' = "done" /\ result' = "error" /\ rows' = FALSE /\ UNCHANGED i
    /\ UNCHANGED <<provVars, tunVars, callVars, conn, rid, partial, found, aname, nconn,
                   chanVars>>

\* the row loop: a scan error, or the loop ends with or without the row
\* how the row loop can end: SHOW USERS has the row of user d.Id() or not;
\* the databases of the cluster are not kept
ScanOutcomes ==
    IF h \in {"resourceUserRead", "resourceUserImporter"}
    THEN {"scanerr", IF rid \in users THEN "found" ELSE "notfound"}
    ELSE {"found", "notfound", "scanerr"}

DoScanRows ==
    /\ At("scan")
    /\ \E o \in ScanOutcomes :
          /\ found' = (o = "found")
          /\ Outcome(o # "scanerr")
    /\ UNCHANGED <<provVars, tunVars, callVars, conn, rid, partial, log, aname, row, nconn,
                   chanVars, dbVars>>

DoRowsErr ==
    /\ At("rowserr")
    /\ \E ok \in BOOLEAN : Outcome(ok)
    /\ UNCHANGED <<provVars, tunVars, callVars, dataVars, conn>>

DoSet ==
    /\ At("set") \/ At("setname") \/ At("setscanned")
    /\ aname' = CASE Cur.ok /\ Cur.k = "setname" -> Cur.val
                  [] Cur.ok /\ Cur.k = "setscanned" -> row.name
                  [] OTHER -> aname
    /\ Outcome(Cur.ok \/ ~Cur.checked)
    /\ UNCHANGED <<provVars, tunVars, callVars, conn, rid, partial, found, log, row, nconn,
                   chanVars, dbVars>>

DoSetId ==
    /\ At("setid") \/ At("setidscanned")
    /\ rid' = IF Cur.k = "setid" THEN Cur.arg ELSE Itoa(row.id)
    /\ i' = i + 1
    /\ UNCHANGED <<provVars, tunVars, callVars, pc, result, conn, rows, partial, found, log,
                   aname, row, nconn, chanVars, dbVars>>

\* close(ch): closing a closed channel panics
closeChan(st) ==
    IF st = "closed" THEN [panic |-> TRUE, st |-> st] ELSE [panic |-> FALSE, st |-> "closed"]

\* close(stopCh); a forwarding task that sees the stop signal releases its
\* listener
DoClose ==
    /\ At("close")
    /\ LET c == closeChan(stop)
       IN  IF c.panic
           THEN Panic("close of closed channel") /\ UNCHANGED <<stop, fwd>>
           ELSE /\ stop' = c.st
                /\ fwd' = IF fwd = "listening" THEN "stopped" ELSE fwd
                /\ listeners' = listeners \ {<<inv, d.port>>}
                /\ i' = i + 1 /\ UNCHANGED <<pc, result>>
    /\ UNCHANGED <<provVars, callVars, dataVars, ready, acq, conn, rows>>

\* the handler's last statement is done: return without error
Return ==
    /\ pc = "run" /\ i > Len(Stmts)
    /\ pc' = "done" /\ result' = "ok" /\ rows' = FALSE
    /\ UNCHANGED <<provVars, tunVars, callVars, dataVars, conn, i>>

Handle ==
    \/ Begin
    \/ DoMake
    \/ DoValidate
    \/ DoPartial
    \/ TryPortForwardIfNeeded
    \/ ForwarderBind
    \/ ForwarderFail
    \/ AwaitReady
    \/ DoConnect
    \/ DoPing
    \/ DoStatement
    \/ DoScanRows
    \/ DoRowsErr
    \/ DoSet
    \/ DoSetId
    \/ DoClose
    \/ Return
    \/ Finish

IdleCall ==
    /\ inv = 0 /\ listeners = {} /\ h = "none" /\ d = D0 /\ pc = "idle" /\ i = 1
    /\ stop = "open" /\ ready = FALSE /\ fwd = "none" /\ acq = "pending"
    /\ conn = "none" /\ rows = FALSE /\ found = FALSE /\ log = <<>>
    /\ result = "none" /\ rid = "" /\ partial = FALSE
    /\ aname = "" /\ row = NoRow /\ nconn = 0 /\ stopCh = 0 /\ readyCh = 0
    /\ handed = <<>> /\ prev = NoPrev /\ made = -1
    /\ users = Users0 /\ schedules = Schedules0 /\ regions = {}

Init ==
    /\ cfg \in ProviderConfigs /\ env \in Envs
    /\ cfgState = "unconfigured" /\ cfgErr = "" /\ client = NoClient
    /\ IdleCall

Next == Configure \/ Handle

Spec == Init /\ [][Next]_vars

\* --------------------------------------------- handlers on a given client

\* A handler takes its client as the argument meta.  HandlerSpec runs the
\* handlers on each client value a provider block stands for: with a
\* kube_config block the client configure builds, without one the client
\* holding the supplied dns and no Kubernetes clientset.
ClientFor(c) ==
    IF Len(c[argKubeConfig]) > 0 THEN configure(c, "ok").client
    ELSE [dns |-> c[argDns], username |-> c[argUsername], password |-> c[argPassword],
          kubeConn |-> NoKube]

UsableConfigs ==
    {c \in ProviderConfigs :
        /\ c[argUsername] # "" /\ c[argPassword] # ""
        /\ IF Len(c[argKubeConfig]) > 0
           THEN c[argKubeConfig][1][argNamespace] # ""
                /\ c[argKubeConfig][1][argServiceName] # ""
           ELSE c[argDns] # <<>>}

HandlerInit ==
    /\ cfg \in UsableConfigs /\ env = "ok"
    /\ cfgState = "ok" /\ cfgErr = "" /\ client = ClientFor(cfg)
    /\ IdleCall

HandlerSpec == HandlerInit /\ [][Handle]_vars

\* ----------------------------------------------------------------- claims

KubeConfigured == Len(cfg[argKubeConfig]) > 0

\* C1: every handler that acquired a tunnel has closed its stop signal when it
\* returns, on the success return and on every error return.
C1_StopClosedOnEveryExit ==
    (pc = "done" /\ acq = "ok") => stop = "closed"

C3_ConnClosedBeforeStop ==
    (stop = "closed" /\ acq = "ok") => (conn # "open" /\ ~rows)

\* C4: when tunnel acquisition fails the handler returns an error without
\* attempting a connection or issuing a statement.
C4_FailedTunnelFailsCall ==
    acq = "failed" =>
        /\ conn = "none" /\ log = <<>>
        /\ pc = "done" => result = "error"

\* C5: once a statement of a handler fails, the handler has returned the
\* error and the failed statement is the last one it issued: no later
\* statement follows it, and it is not issued again.
C5_FailedStatementEndsCall ==
    \A k \in 1..Len(log) :
        ~log[k].ok => (k = Len(log) /\ pc = "done" /\ result = "error")

C5_Witness ==
    /\ Len(log) >= 2 /\ ~log[Len(log)].ok
    /\ h \in {"resourceDatabaseCreate", "resourceDatabaseUpdate", "resourceUserCreate",
              "resourceUserUpdate", "resourceDatabaseBackupCreate"}
    /\ Len(log) < Cardinality({k \in 1..Len(Stmts) : Stmts[k].sql # <<>>})

\* C6: when a handler starts its tunnel on a port, no listener of an earlier,
\* returned invocation is still bound on that port.
C6_PortHeldByOneTunnel ==
    fwd = "starting" => ~\E l \in listeners : l[2] = d.port /\ l[1] # inv

\* C7: closing the stop signal a second time never panics.
C7_CloseStopIdempotent ==
    result # "close of closed channel"

\* C8: with a kube_config block whose namespace or service_name is empty,
\* configure returns an error and no client, no handler runs and no listener
\* is bound; when nothing else is wrong the error names the missing field.
C8_MissingNamespaceOrService ==
    (/\ cfgState # "unconfigured" /\ KubeConfigured
     /\ \/ cfg[argKubeConfig][1][argNamespace] = ""
        \/ cfg[argKubeConfig][1][argServiceName] = "")
    => /\ cfgState = "error" /\ client = NoClient /\ cfgErr # ""
       /\ inv = 0 /\ pc = "idle" /\ listeners = {}
       /\ (cfg[argUsername] # "" /\ cfg[argPassword] # "" /\ env = "ok")
            => cfgErr = (IF cfg[argKubeConfig][1][argNamespace] = ""
                         THEN "Cockroachdb namespace is not specified"
                         ELSE "Cockroachdb service name is not specified")

C8_Witness ==
    /\ cfgState = "error" /\ KubeConfigured
    /\ cfg[argKubeConfig][1][argNamespace] = ""
    /\ cfg[argKubeConfig][1][argServiceName] # ""
    /\ cfgErr = "Cockroachdb namespace is not specified"

C10_DirectDns ==
    (/\ cfgState # "unconfigured" /\ ~KubeConfigured
     /\ cfg[argUsername] # "" /\ cfg[argPassword] # "" /\ cfg[argDns] # <<>>)
    => (cfgState = "ok" /\ client # NoClient /\ client.dns = cfg[argDns])

\* the connection string the handler is to connect with in tunnel mode
TunnelDns(u, p, port) ==
    <<"postgresql://", u, ":", p, "@localhost:", port, "/system?sslmode=disable">>

\* C11: in tunnel mode the connection string handed to the connect call is
\* postgresql://<username>:<password>@localhost:<local_port>/system?sslmode=disable
\* for the configured username and password and the handler's local_port:
\* the substitution fills in the port and changes nothing else.
C11_PlaceholderResolved ==
    (At("connect") /\ KubeConfigured) =>
        dns = TunnelDns(cfg[argUsername], cfg[argPassword], d.port)

\* a non-empty string of digits
IsNumeric(p) == p \in {"26257", "26258", "26259", "26260"}

\* C12: a handler that has requested its tunnel or attempted its connection
\* has a local_port that is a non-empty numeric string.
C12_LocalPortValid ==
    (acq # "pending" \/ conn # "none") => IsNumeric(d.port)

\* C13: a handler that opened a database connection has closed it when it
\* returns.
C13_ConnClosedOnReturn ==
    pc = "done" => conn # "open"

\* the statement whose error the handler returned
Failed == Stmts[i]

\* C18: a handler that returns an input-validation error has not invoked
\* tunnel acquisition and has not attempted a connection.
C18_ValidationBeforeTunnel ==
    (/\ pc = "done" /\ result = "error"
     /\ Failed.k = "validate" /\ Failed.arg # "notfound")
    => (acq = "pending" /\ fwd = "none" /\ conn = "none")

\* C19: after a failed connection attempt the handler returns an error and
\* uses the connection for nothing: it is not at a later statement, and it
\* does not end in a panic.
C19_FailedConnectReturnsError ==
    conn = "failed" => (pc = "done" /\ result = "error" /\ Failed.k = "connect")

EnvironmentFailed ==
    result = "error" /\ Failed.k \in {"connect", "ping", "exec", "query", "queryrow", "scan", "rowserr"}

\* C15: a Read of the user or backup-schedule resource that runs on the state
\* a successful Create with name n left finds what Create made (the user's
\* row, the schedule of the recorded ID); when it returns, it returns no
\* error and the naming attribute (username, name) is n, unless the
\* connection, the ping, a statement or the cursor failed.
C15_CreateThenReadKeepsName ==
    (h \in {"resourceUserRead", "resourceDatabaseBackupRead"} /\ prev # NoPrev) =>
        /\ At("scan") => rid \in users
        /\ At("queryrow") => Possible(Cur.sql)
        /\ pc = "done" => (EnvironmentFailed \/ (result = "ok" /\ aname = prev.n))

C15_Witness ==
    /\ h = "resourceDatabaseBackupRead" /\ prev # NoPrev
    /\ pc = "done" /\ result = "ok" /\ aname = prev.n /\ prev.n = "a"

C15_WitnessUser ==
    /\ h = "resourceUserRead" /\ prev # NoPrev
    /\ pc = "done" /\ result = "ok" /\ aname = prev.n /\ prev.n = "a"

Creates == {"resourceDatabaseCreate", "resourceUserCreate", "resourceDatabaseBackupCreate"}
Deletes == {"resourceDatabaseDelete", "resourceUserDelete", "resourceDatabaseBackupDelete"}

\* the SQL statements of the running handler
SqlStatements == {k \in 1..Len(Stmts) : Stmts[k].sql # <<>>}

\* C16: a Create or Delete whose ID differs from the ID on entry has issued
\* every one of its SQL statements and each succeeded; a Create or Delete
\* that returned an error has the ID it was entered with.
C16_IdChangesOnlyOnSuccess ==
    h \in Creates \cup Deletes =>
        /\ rid # d.id =>
              /\ Len(log) = Cardinality(SqlStatements)
              /\ \A k \in 1..Len(log) : log[k].ok
        /\ (pc = "done" /\ result = "error") => rid = d.id

C16_Witness ==
    /\ h = "resourceDatabaseBackupCreate" /\ pc = "done" /\ result = "error"
    /\ Len(log) = 2 /\ log[1].ok /\ rid = d.id

\* C17: a backup-schedule Delete that runs on the state a successful Create
\* left drops the schedule that Create created.
C17_DeleteDropsOwnSchedule ==
    (h = "resourceDatabaseBackupDelete" /\ prev # NoPrev) => d.id = Itoa(prev.made)

\* the regions the log has a statement of the given verb for
Issued(verb) == {log[k].sql[4] : k \in {j \in 1..Len(log) : IsRegion(log[j].sql, verb)}}

\* C20: an Update that changes the regions from list o to list n issues DROP
\* REGION only for regions of o not in n and ADD REGION only for regions of n
\* not in o, no ADD before a DROP; when it returns without error it has
\* dropped every region of o not in n, added every region of n not in o, and
\* the database's regions are those of n.
C20_RegionReconciliation ==
    (h = "resourceDatabaseUpdate" /\ dbRegionsAttr \in d.ch) =>
        LET o == Range(d.oregs)
            n == Range(d.nregs)
        IN  /\ Issued("DROP REGION") \subseteq o \ n
            /\ Issued("ADD REGION") \subseteq n \ o
            /\ \A j, k \in 1..Len(log) :
                  (IsRegion(log[j].sql, "ADD REGION") /\ IsRegion(log[k].sql, "DROP REGION"))
                      => k < j
            /\ (pc = "done" /\ result = "ok") =>
                  /\ Issued("DROP REGION") = o \ n
                  /\ Issued("ADD REGION") = n \ o
                  /\ regions = n

C20_Witness ==
    /\ h = "resourceDatabaseUpdate" /\ d.ch = {dbRegionsAttr}
    /\ d.oregs = <<"r1">> /\ d.nregs = <<"r2">> /\ pc = "done" /\ result = "ok"
    /\ Len(log) = 2 /\ regions = {"r2"}

IsRename(sql) == Len(sql) = 4 /\ sql[3] = "RENAME TO"

\* C21: in a database Update that changes the name, the RENAME of the old
\* name to the new one is the first statement issued, every later statement
\* names the database by the new name, and nothing follows a failed RENAME;
\* in every database Update, partial mode is on at an error return, off at a
\* return without error, and once switched on it is off only when every
\* statement of the update was issued and succeeded.
C21_UpdateStatementOrder ==
    h = "resourceDatabaseUpdate" =>
        /\ dbNameAttr \in d.ch =>
              /\ \A k \in 1..Len(log) :
                    IF k = 1
                    THEN log[k].sql = <<"ALTER DATABASE", d.oname, "RENAME TO", d.name>>
                    ELSE ~IsRename(log[k].sql) /\ log[k].sql[2] = d.name
              /\ (Len(log) >= 1 /\ ~log[1].ok) => Len(log) = 1
        /\ (pc = "done" /\ result = "error") => partial
        /\ (pc = "done" /\ result = "ok") => ~partial
        /\ (i > 1 /\ ~partial) =>
              /\ Len(log) = Cardinality(SqlStatements)
              /\ \A k \in 1..Len(log) : log[k].ok

C21_Witness ==
    /\ h = "resourceDatabaseUpdate"
    /\ d.ch = {dbNameAttr, dbOwnerAttr, dbPrimaryRegionAttr, dbRegionsAttr}
    /\ d.oname # d.name /\ pc = "done" /\ result = "ok" /\ Len(log) = 5 /\ ~partial

C21_WitnessError ==
    /\ h = "resourceDatabaseUpdate" /\ dbNameAttr \in d.ch /\ dbOwnerAttr \in d.ch
    /\ pc = "done" /\ result = "error" /\ Len(log) = 2 /\ log[1].ok /\ partial

====
